---- MODULE Spec2Model ----
(***************************************************************************)
(* Model of src/scraper/browser.py: BrowserManager, a session wrapper      *)
(* around a browser-automation engine (engine, browser, context, page)     *)
(* with a bounded retry in get_properties.                                 *)
(*                                                                         *)
(* One session is modelled.  The caller serialises the public operations,  *)
(* so each public coroutine (connect, close, get_properties,               *)
(* get_page_content) is one action.  What the engine does at each call     *)
(* (succeed, raise, return None) is an input of the action.  Every action  *)
(* records the engine calls it made, in order, in log, and what the        *)
(* caller got back in outcome.                                             *)
(***************************************************************************)
EXTENDS Integers, Sequences, FiniteSets

\* ------------------------------------------------------------------ bounds
\* largest configured scraping.max_retries explored
MaxRetries == 2
\* engine resources of one kind that can be live at the same time
MaxId == 2
\* largest number of elements matched by the item selector
MaxElems == 2

\* --------------------------------------------------------------- constants
\* asyncio.sleep(5) after navigation
SettleDelay == 5
\* len(content) < 1000
MinContentLen == 1000

\* configured scraping.retry_delay values explored (milliseconds)
RetryDelays == {2000}
\* the non-empty inner HTML of the element at each position of the page
Html == <<"a", "b", "c", "d">>
\* captured page contents, abstracted to length and presence of the marker
Contents == {[len |-> l, marker |-> m] : l \in {500, 1000}, m \in BOOLEAN}

VARIABLES
    playwright,   \* self._playwright: 0 is None, otherwise the engine's id
    browser,      \* self._browser
    context,      \* self._context
    page,         \* self._page
    live,         \* engine side: resources started and not yet released
    max_retries,  \* config.scraping.max_retries
    retry_delay,  \* config.scraping.retry_delay
    lastOp,       \* the public operation the caller invoked last
    outcome,      \* what that operation gave back to the caller
    log,          \* the engine calls that operation made, in order
    firstOk,      \* history: index of the first attempt the page lets succeed
    connected,    \* history: some connect() has returned normally
    closeCalled,  \* history: close() has been invoked
    pageElems,    \* input: inner HTML of the elements the last fetch found
    pageContent,  \* input: the markup the last content capture was given
    scope         \* "in" inside an async with block, otherwise "out"

vars == <<playwright, browser, context, page, live, max_retries, retry_delay,
          lastOp, outcome, log, firstOk, connected, closeCalled,
          pageElems, pageContent, scope>>

\* ----------------------------------------------------------------- helpers
\* None as a returned page content
None == [len |-> -1, marker |-> FALSE]

\* one engine call: which call, its argument (a resource id or a delay),
\* and how it ended: "ok", "raise" or "None"
Call(c, a, r) == [call |-> c, arg |-> a, res |-> r]

Returned(v) == [kind |-> "return", err |-> "", val |-> v]
Raised(e) == [kind |-> "raise", err |-> e, val |-> <<>>]

\* the four handle fields as one record
Session == [playwright |-> playwright, browser |-> browser,
            context |-> context, page |-> page, live |-> live]

Kinds == {"playwright", "browser", "context", "page"}

\* the id the engine gives to the next resource of a kind
Fresh(kind, lv) == CHOOSE i \in 1..MaxId :
                      /\ <<kind, i>> \notin lv
                      /\ \A j \in 1..(i - 1) : <<kind, j>> \in lv

CanLaunch(lv) == \A k \in Kinds : {i \in 1..MaxId : <<k, i>> \notin lv} # {}

Count(seq, c) == Cardinality({i \in 1..Len(seq) : seq[i].call = c})

\* ------------------------------------------------------------------- close
\* One guarded release step of close() (lines 79-81, 83-85, 87-89, 91-93).
\* st.exc is the exception in flight inside the try block: once a release
\* has raised, control is in the except clause and no later step runs.
\* The field is cleared only after its release returned.
Release(st, kind, call, rfail) ==
    IF st.exc # "" THEN st
    ELSE IF st.s[kind] = 0 THEN st
    ELSE IF kind \in rfail
         THEN [st EXCEPT !.log = Append(@, Call(call, st.s[kind], "raise")),
                         !.exc = "CleanupFailure"]
         ELSE [s   |-> [st.s EXCEPT ![kind] = 0,
                                    !.live = @ \ {<<kind, st.s[kind]>>}],
               log |-> Append(st.log, Call(call, st.s[kind], "ok")),
               exc |-> ""]

\* the try block of close() releasing from the engine inwards
close_try_reversed(s, rfail) ==
    LET st0 == [s |-> s, log |-> <<>>, exc |-> ""]
        st1 == Release(st0, "playwright", "playwright.stop", rfail)
        st2 == Release(st1, "browser", "browser.close", rfail)
        st3 == Release(st2, "context", "context.close", rfail)
    IN  Release(st3, "page", "page.close", rfail)

\* the try block of close(): page, context, browser, engine, in that order
close_try(s, rfail) ==
    LET st0 == [s |-> s, log |-> <<>>, exc |-> ""]
        st1 == Release(st0, "page", "page.close", rfail)
        st2 == Release(st1, "context", "context.close", rfail)
        st3 == Release(st2, "browser", "browser.close", rfail)
    IN  Release(st3, "playwright", "playwright.stop", rfail)

\* close() whose except clause lets the exception through
close_reraise(s, rfail) ==
    LET d == close_try(s, rfail)
    IN  [s |-> d.s, log |-> d.log,
         out |-> IF d.exc # "" THEN Raised(d.exc) ELSE Returned(<<>>)]

\* close(): the except clause logs the exception and the coroutine returns
close(s, rfail) ==
    LET d == close_try(s, rfail)
    IN  [s |-> d.s, log |-> d.log, out |-> Returned(<<>>)]

\* ----------------------------------------------------------------- connect
\* the launch steps at which the engine can be made to fail
ConnectFails == {"none", "start", "start_none", "launch", "new_context",
                 "new_page", "set_default_timeout",
                 "set_default_navigation_timeout"}

\* a launch call that stores the new handle in a field (lines 37, 52, 56, 64)
Acquire(st, kind, call, cfail) ==
    IF st.exc # "" THEN st
    ELSE IF cfail = call
         THEN [st EXCEPT !.log = Append(@, Call(call, 0, "raise")),
                         !.exc = call]
         ELSE LET id == Fresh(kind, st.s.live)
              IN  [s   |-> [st.s EXCEPT ![kind] = id,
                                        !.live = @ \cup {<<kind, id>>}],
                   log |-> Append(st.log, Call(call, id, "ok")),
                   exc |-> ""]

\* _initialize_playwright that starts the engine only on the first connect()
initialize_once(st, cfail) ==
    IF st.s.playwright # 0 \/ connected \/ closeCalled THEN st
    ELSE IF cfail = "start_none"
         THEN [st EXCEPT !.log = Append(@, Call("start", 0, "None"))]
         ELSE Acquire(st, "playwright", "start", cfail)

\* _initialize_playwright without the guard of line 35
initialize_always(st, cfail) ==
    IF cfail = "start_none"
    THEN [st EXCEPT !.log = Append(@, Call("start", 0, "None"))]
    ELSE Acquire(st, "playwright", "start", cfail)

\* _initialize_playwright(): start the engine unless the handle is present
initialize_playwright(st, cfail) ==
    IF st.s.playwright # 0 THEN st
    ELSE IF cfail = "start_none"
         THEN [st EXCEPT !.log = Append(@, Call("start", 0, "None"))]
         ELSE Acquire(st, "playwright", "start", cfail)

\* lines 48-49: if not self._playwright: raise RuntimeError
CheckPlaywright(st) ==
    IF st.exc = "" /\ st.s.playwright = 0
    THEN [st EXCEPT !.exc = "RuntimeError"]
    ELSE st

\* lines 65-66: a timeout setter on the new page
Configure(st, call, cfail) ==
    IF st.exc # "" THEN st
    ELSE IF cfail = call
         THEN [st EXCEPT !.log = Append(@, Call(call, st.s.page, "raise")),
                         !.exc = call]
         ELSE [st EXCEPT !.log = Append(@, Call(call, st.s.page, "ok"))]

\* the try block of connect()
connect_try(s, cfail) ==
    LET st0 == [s |-> s, log |-> <<>>, exc |-> ""]
        st1 == CheckPlaywright(initialize_playwright(st0, cfail))
        st2 == Acquire(st1, "browser", "launch", cfail)
        st3 == Acquire(st2, "context", "new_context", cfail)
        st4 == Acquire(st3, "page", "new_page", cfail)
        st5 == Configure(st4, "set_default_timeout", cfail)
    IN  Configure(st5, "set_default_navigation_timeout", cfail)

\* connect(): on an exception run close(), then re-raise (lines 69-72); an
\* exception leaving close() would replace the one being handled
connect(s, cfail, rfail) ==
    LET f == connect_try(s, cfail)
    IN  IF f.exc = ""
        THEN [s |-> f.s, log |-> f.log, out |-> Returned(<<>>)]
        ELSE LET c == close(f.s, rfail)
             IN  [s |-> c.s, log |-> f.log \o c.log,
                  out |-> IF c.out.kind = "raise" THEN c.out
                          ELSE Raised(f.exc)]

\* ---------------------------------------------------------- get_properties
\* what the page does to one attempt (lines 120-144):
\*   "goto_fail"        page.goto raises
\*   "wait_timeout"     the list selector does not appear within the
\*                      timeout: wait_for_selector raises TimeoutError
\*   "wait_none"        wait_for_selector returns None
\*   "query_fail"       query_selector_all raises
\*   "ok"               every call returns
FailKinds == {"goto_fail", "wait_timeout", "query_fail"}
OkKinds == {"wait_none", "ok"}

\* the loop of lines 137-140 without the test of line 139
collect_keep_empty(elems) == elems

\* lines 137-140: keep the non-empty fragments, in element order
RECURSIVE collect(_)
collect(elems) ==
    IF elems = <<>> THEN <<>>
    ELSE IF Head(elems) # "" THEN <<Head(elems)>> \o collect(Tail(elems))
         ELSE collect(Tail(elems))

InnerHtmlCalls(elems) == [i \in 1..Len(elems) |-> Call("inner_html", i, "ok")]

\* the try block of get_properties for one attempt
attempt(a, elems) ==
    LET nav  == <<Call("goto", page, "ok"), Call("sleep", SettleDelay, "ok")>>
        wait == nav \o <<Call("wait_for_selector", page, "ok")>>
        qry  == wait \o <<Call("query_selector_all", page, "ok")>>
    IN  CASE a = "goto_fail" ->
               [exc |-> TRUE, val |-> <<>>,
                log |-> <<Call("goto", page, "raise")>>]
          [] a = "wait_timeout" ->
               [exc |-> TRUE, val |-> <<>>,
                log |-> nav \o <<Call("wait_for_selector", page, "raise")>>]
          [] a = "wait_none" ->
               [exc |-> FALSE, val |-> <<>>,
                log |-> nav \o <<Call("wait_for_selector", page, "None")>>]
          [] a = "query_fail" ->
               [exc |-> TRUE, val |-> <<>>,
                log |-> wait \o <<Call("query_selector_all", page, "raise")>>]
          [] OTHER ->
               [exc |-> FALSE, val |-> collect(elems),
                log |-> qry \o InnerHtmlCalls(elems)]

\* retry test with the comparison off by one
ShouldRetryLeq(retry_count) == retry_count <= max_retries

\* line 147: if retry_count < self.config.scraping.max_retries
ShouldRetry(retry_count) == retry_count < max_retries

\* line 149: asyncio.sleep(retry_delay / 1000); arg is the delay in ms
RetrySleep(retry_count) == Call("retry_sleep", retry_delay, "ok")

\* guard that lets a session without a page through
PageMissingNever(pg) == FALSE

\* line 114: if not self._page
PageMissing(pg) == pg = 0

\* what the page does to attempt i (0-based) under oracle o: the first
\* o.fails attempts fail the way o.fk says, the next one ends as o.ok says
AttemptKind(o, i) == IF i < o.fails THEN o.fk ELSE o.ok

\* get_properties(url, retry_count); att says what the page does to each
\* attempt, elems is the inner HTML of the elements of a successful attempt.
\* Without a page, self._page.goto raises AttributeError inside the try.
RECURSIVE get_properties(_, _, _)
get_properties(retry_count, att, elems) ==
    IF PageMissing(page)
    THEN [out |-> Raised("NotInitialized"), log |-> <<>>]
    ELSE LET a == IF page = 0
                  THEN [exc |-> TRUE, val |-> <<>>, log |-> <<>>]
                  ELSE attempt(AttemptKind(att, retry_count), elems)
         IN  IF ~a.exc
             THEN [out |-> Returned(a.val), log |-> a.log]
             ELSE IF ShouldRetry(retry_count)
                  THEN LET r == get_properties(retry_count + 1, att, elems)
                       IN  [out |-> r.out,
                            log |-> a.log \o <<RetrySleep(retry_count)>>
                                          \o r.log]
                  ELSE [out |-> Raised("FetchFailure"), log |-> a.log]

\* -------------------------------------------------------- get_page_content
ContentFails == {"none", "goto_fail", "sleep_fail", "content_fail"}

\* the advisory checks without the marker test of line 176
WarningsShortOnly(content) ==
    IF content.len < MinContentLen
    THEN <<Call("logger.warning", 175, "ok")>>
    ELSE <<>>

\* lines 174-177: the advisory checks; arg is the line of the warning
Warnings(content) ==
    IF content.len < MinContentLen
    THEN <<Call("logger.warning", 175, "ok")>>
    ELSE IF ~content.marker
         THEN <<Call("logger.warning", 177, "ok")>>
         ELSE <<>>

\* the try block of get_page_content (lines 164-179); exc is the exception
\* raised inside it, val the value at the return statement
content_try(gfail, content) ==
    IF page = 0
    THEN [exc |-> "AttributeError", val |-> None, log |-> <<>>]
    ELSE CASE gfail = "goto_fail" ->
                [exc |-> "goto", val |-> None,
                 log |-> <<Call("goto", page, "raise")>>]
           [] gfail = "sleep_fail" ->
                [exc |-> "sleep", val |-> None,
                 log |-> <<Call("goto", page, "ok"),
                           Call("sleep", SettleDelay, "raise")>>]
           [] gfail = "content_fail" ->
                [exc |-> "content", val |-> None,
                 log |-> <<Call("goto", page, "ok"),
                           Call("sleep", SettleDelay, "ok"),
                           Call("content", page, "raise")>>]
           [] OTHER ->
                [exc |-> "", val |-> content,
                 log |-> <<Call("goto", page, "ok"),
                           Call("sleep", SettleDelay, "ok"),
                           Call("content", page, "ok")>>
                         \o Warnings(content)]

\* get_page_content whose except clause re-raises
get_page_content_reraise(gfail, content) ==
    LET t == content_try(gfail, content)
    IN  [out |-> IF t.exc # "" THEN Raised(t.exc) ELSE Returned(t.val),
         log |-> t.log]

\* get_page_content that tries once more after a failure when retries are
\* configured, the way get_properties does
get_page_content_retry(gfail, content) ==
    LET t == content_try(gfail, content)
    IN  [out |-> IF t.exc # "" THEN Returned(None) ELSE Returned(t.val),
         log |-> IF t.exc # "" /\ max_retries > 0
                 THEN t.log \o <<Call("retry_sleep", retry_delay, "ok")>>
                            \o t.log
                 ELSE t.log]

\* get_page_content(url): lines 180-182 turn any exception into None
get_page_content(gfail, content) ==
    LET t == content_try(gfail, content)
    IN  [out |-> IF t.exc # "" THEN Returned(None) ELSE Returned(t.val),
         log |-> t.log]

\* ------------------------------------------------------------------ inputs
\* the oracles explored for a session configured with n retries: the page
\* fails the first k attempts, k in 0..n+2, all in the same way; k = n + 1
\* and k = n + 2 are pages that fail every attempt the code makes
Oracles(n) ==
    {[fails |-> 0, fk |-> "goto_fail", ok |-> k] : k \in OkKinds}
    \cup {[fails |-> f, fk |-> fk, ok |-> k] :
             f \in 1..n, fk \in FailKinds, k \in OkKinds}
    \cup {[fails |-> f, fk |-> fk, ok |-> "ok"] :
             f \in (n + 1)..(n + 2), fk \in FailKinds}

\* the pages explored: element i is empty or holds Html[i]
ElemSeqs ==
    UNION {{[i \in 1..n |-> IF i \in S THEN Html[i] ELSE ""] :
               S \in SUBSET (1..n)} : n \in 0..MaxElems}

\* the release calls the engine can be made to fail in one close()
ReleaseFails == {{}} \cup {{k} : k \in Kinds}

\* ------------------------------------------------------------------- state
\* __init__ (lines 25-29): every handle is None
Init ==
    /\ playwright = 0
    /\ browser = 0
    /\ context = 0
    /\ page = 0
    /\ live = {}
    /\ max_retries \in 0..MaxRetries
    /\ retry_delay \in RetryDelays
    /\ lastOp = "init"
    /\ outcome = Returned(<<>>)
    /\ log = <<>>
    /\ firstOk = 0
    /\ connected = FALSE
    /\ closeCalled = FALSE
    /\ pageElems = <<>>
    /\ pageContent = None
    /\ scope = "out"

SetSession(s) ==
    /\ playwright' = s.playwright
    /\ browser' = s.browser
    /\ context' = s.context
    /\ page' = s.page
    /\ live' = s.live

\* the failures the engine can be made to produce in one connect(): the
\* engine start can fail only when it is called, and the release calls
\* happen only after a launch step failed
ConnectInputs ==
    {in \in ConnectFails \X ReleaseFails :
        /\ (in[1] \in {"start", "start_none"} => playwright = 0)
        /\ (in[1] = "none" => in[2] = {})}

\* connect() entered through op: "connect" or "aenter"
DoConnect(op) ==
    \E in \in ConnectInputs :
        /\ CanLaunch(live)
        /\ LET r == connect(Session, in[1], in[2])
           IN  /\ SetSession(r.s)
               /\ outcome' = r.out
               /\ log' = r.log
               /\ connected' = (connected \/ r.out.kind = "return")
               /\ closeCalled' = (closeCalled \/ r.out.kind = "raise")
        /\ lastOp' = op
        /\ firstOk' = 0
        /\ pageElems' = <<>>
        /\ pageContent' = None
        /\ UNCHANGED <<max_retries, retry_delay>>

\* close() entered through op: "close" or "aexit"
DoClose(op) ==
    \E rfail \in ReleaseFails :
        /\ LET r == close(Session, rfail)
           IN  /\ SetSession(r.s)
               /\ outcome' = r.out
               /\ log' = r.log
        /\ lastOp' = op
        /\ closeCalled' = TRUE
        /\ firstOk' = 0
        /\ pageElems' = <<>>
        /\ pageContent' = None
        /\ UNCHANGED <<max_retries, retry_delay, connected>>

\* await manager.connect()
Connect == DoConnect("connect") /\ UNCHANGED scope

\* await manager.close()
Close == DoClose("close") /\ UNCHANGED scope

\* lines 184-192: __aenter__ awaits connect(); the block is entered only
\* when connect() returns, otherwise its exception leaves the with statement
AEnter ==
    /\ scope = "out"
    /\ DoConnect("aenter")
    /\ scope' = IF outcome'.kind = "return" THEN "in" ELSE "out"

\* lines 194-198: __aexit__ awaits close(), however the block ended
AExit ==
    /\ scope = "in"
    /\ DoClose("aexit")
    /\ scope' = "out"

\* a fetch that tears the session down when it raises
fetch_effect_teardown(s, out) ==
    IF out.kind = "raise" /\ out.err = "FetchFailure" THEN close(s, {}).s
    ELSE s

\* the handle fields after a fetch that ended with out: neither
\* get_properties nor get_page_content assigns a handle field or calls
\* close() or connect()
fetch_effect(s, out) == s

\* await manager.get_properties(url)
GetProperties ==
    \E att \in Oracles(max_retries) :
      \E elems \in (IF att.ok = "ok" /\ att.fails <= max_retries /\ page # 0
                     THEN ElemSeqs ELSE {<<>>}) :
        /\ LET r == get_properties(0, att, elems)
           IN  /\ outcome' = r.out
               /\ log' = r.log
               /\ SetSession(fetch_effect(Session, r.out))
        /\ lastOp' = "get_properties"
        /\ firstOk' = att.fails
        /\ pageElems' = elems
        /\ pageContent' = None
        /\ UNCHANGED <<max_retries, retry_delay, connected, closeCalled,
                       scope>>

\* await manager.get_page_content(url)
GetPageContent ==
    \E gfail \in ContentFails :
      \E content \in (IF gfail = "none" /\ page # 0 THEN Contents
                       ELSE {None}) :
        /\ LET r == get_page_content(gfail, content)
           IN  /\ outcome' = r.out
               /\ log' = r.log
               /\ SetSession(fetch_effect(Session, r.out))
        /\ lastOp' = "get_page_content"
        /\ firstOk' = 0
        /\ pageElems' = <<>>
        /\ pageContent' = content
        /\ UNCHANGED <<max_retries, retry_delay, connected, closeCalled,
                       scope>>

Next == Connect \/ Close \/ GetProperties \/ GetPageContent

Spec == Init /\ [][Next]_vars

\* a session used only as "async with BrowserManager(config) as manager:"
\* with fetches in the block
BodyGetProperties == scope = "in" /\ GetProperties
BodyGetPageContent == scope = "in" /\ GetPageContent

NextScoped == AEnter \/ BodyGetProperties \/ BodyGetPageContent \/ AExit

SpecScoped == Init /\ [][NextScoped]_vars

\* ---------------------------------------------------------------- properties
Ready == playwright # 0 /\ browser # 0 /\ context # 0 /\ page # 0
AllAbsent == playwright = 0 /\ browser = 0 /\ context = 0 /\ page = 0

\* some engine call of the last operation raised
SomeRaise == \E i \in 1..Len(log) : log[i].res = "raise"
\* every engine call of the last operation returned a value
AllCallsOk == \A i \in 1..Len(log) : log[i].res = "ok"

\* the release call of each kind of handle, and the launch call of each
ReleaseCall(k) == CASE k = "page" -> "page.close"
                    [] k = "context" -> "context.close"
                    [] k = "browser" -> "browser.close"
                    [] OTHER -> "playwright.stop"
LaunchCall(k) == CASE k = "page" -> "new_page"
                   [] k = "context" -> "new_context"
                   [] k = "browser" -> "launch"
                   [] OTHER -> "start"

\* C1: get_properties on a session with a page makes at most max_retries + 1
\* attempts.  If the page fails every attempt the code makes, the call raises
\* after exactly max_retries + 1 navigations and max_retries retry delays; if
\* it fails attempts 0..k-1 and lets attempt k <= max_retries through, the
\* call returns after k + 1 navigations and k retry delays.  Every retry
\* delay is the configured retry_delay.
C1_RetryBound ==
    (lastOp = "get_properties" /\ page # 0) =>
        /\ Count(log, "goto") <= max_retries + 1
        /\ firstOk > max_retries =>
              /\ outcome.kind = "raise"
              /\ outcome.err = "FetchFailure"
              /\ Count(log, "goto") = max_retries + 1
              /\ Count(log, "retry_sleep") = max_retries
        /\ firstOk <= max_retries =>
              /\ outcome.kind = "return"
              /\ Count(log, "goto") = firstOk + 1
              /\ Count(log, "retry_sleep") = firstOk
        /\ \A i \in 1..Len(log) :
              log[i].call = "retry_sleep" => log[i].arg = retry_delay

\* C1 witness: max_retries = 2, attempts 0 and 1 fail, attempt 2 succeeds
C1_Witness ==
    /\ lastOp = "get_properties"
    /\ Ready
    /\ max_retries = 2
    /\ firstOk = 2
    /\ outcome.kind = "return"
    /\ Count(log, "retry_sleep") = 2

\* C2: when the wait for the list selector fails in get_properties, the call
\* returns the empty sequence, raises nothing and makes no retry.
C2_WaitFailureReturnsEmpty ==
    (/\ lastOp = "get_properties"
     /\ \E i \in 1..Len(log) :
           log[i].call = "wait_for_selector" /\ log[i].res # "ok") =>
        /\ outcome.kind = "return"
        /\ outcome.val = <<>>
        /\ Count(log, "retry_sleep") = 0

\* C3: in a close() call, the release of every handle that was present when
\* the call began is attempted, whatever release step raises.
C3_CloseAttemptsEveryRelease ==
    [][lastOp' = "close" =>
          \A k \in Kinds :
             Session[k] # 0 =>
                \E i \in 1..Len(log') :
                   log'[i].call = ReleaseCall(k) /\ log'[i].arg = Session[k]]_vars

\* C4: after close() returns, all four handle fields are absent.
C4_HandlesClearedAfterClose == lastOp = "close" => AllAbsent

\* C5: close() never propagates an exception to its caller, from any state
\* of the session and whatever release step raises.
C5_CloseNeverRaises == lastOp = "close" => outcome.kind = "return"

\* C5 witness: a close() in which a release step raised
C5_Witness == lastOp = "close" /\ SomeRaise

\* C6: when connect() raises, every handle acquired before the failing step
\* has had its release invoked and all four handle fields are absent.
C6_FailedConnectReleasesAll ==
    (lastOp = "connect" /\ outcome.kind = "raise") =>
        /\ AllAbsent
        /\ \A k \in Kinds : \A i \in 1..Len(log) :
              (log[i].call = LaunchCall(k) /\ log[i].res = "ok") =>
                 \E j \in (i + 1)..Len(log) :
                    log[j].call = ReleaseCall(k) /\ log[j].arg = log[i].arg

\* C7: a fetch operation called before any connect() has succeeded fails
\* with the not-initialized error.
C7_FetchBeforeConnectNotInitialized ==
    (~connected /\ lastOp \in {"get_properties", "get_page_content"}) =>
        (outcome.kind = "raise" /\ outcome.err = "NotInitialized")

\* C8: get_properties called while the page handle is absent raises the
\* not-initialized error at once: no navigation, no settle delay, no retry
\* delay, no retry, whatever max_retries is.
C8_NoPageNoNavigation ==
    (lastOp = "get_properties" /\ page = 0) =>
        /\ outcome.kind = "raise"
        /\ outcome.err = "NotInitialized"
        /\ log = <<>>

\* C8 witness: get_properties after connect() and a close() that cleared the
\* page, on a session configured to retry
C8_Witness ==
    /\ lastOp = "get_properties"
    /\ page = 0
    /\ max_retries = MaxRetries
    /\ connected
    /\ closeCalled

\* C9: get_page_content never raises; when navigation, the settle delay or
\* the capture raises, it returns None.
C9_ContentNeverRaises ==
    lastOp = "get_page_content" =>
        /\ outcome.kind = "return"
        /\ SomeRaise => outcome.val = None

\* C9 witness: a get_page_content in which an engine call raised
C9_Witness ==
    /\ lastOp = "get_page_content"
    /\ SomeRaise
    /\ outcome.kind = "return"
    /\ outcome.val = None

\* C10 as stated: once close() has been called and has left the handles
\* absent, a connect() on the same session does not return with it Ready.
C10_ClosedStaysClosed ==
    [][(lastOp = "close" /\ AllAbsent /\ lastOp' = "connect") =>
          ~(outcome'.kind = "return" /\ Ready')]_vars

\* C10 amended: a session is reusable after close().  A connect() in which
\* every engine call succeeds returns with all four handles present, also
\* after close() has been called, and get_properties on a session whose page
\* handle is present does not fail as not initialized.
C10_ConnectAfterCloseReady ==
    /\ (lastOp = "connect" /\ AllCallsOk) => (outcome.kind = "return" /\ Ready)
    /\ (lastOp = "get_properties" /\ page # 0) => outcome.err # "NotInitialized"

\* C10 witness: a connect() that returned Ready after close() had been called
C10_Witness ==
    /\ closeCalled
    /\ lastOp = "connect"
    /\ outcome.kind = "return"
    /\ Ready

\* position of each release call in the order of close()
Rank(c) == CASE c = "page.close" -> 1
             [] c = "context.close" -> 2
             [] c = "browser.close" -> 3
             [] c = "playwright.stop" -> 4
             [] OTHER -> 0
ReleaseCalls == {ReleaseCall(k) : k \in Kinds}

\* C11: whenever control is with the caller, the four handles are all
\* absent or all present.
C11_AllOrNothing == AllAbsent \/ Ready

\* C12: a get_properties that returns after querying a page with N elements
\* of which K are non-empty returns exactly those K fragments, in element
\* order, none skipped that is non-empty and none duplicated.
C12_FragmentsInOrder ==
    (/\ lastOp = "get_properties"
     /\ outcome.kind = "return"
     /\ \E i \in 1..Len(log) :
           log[i].call = "query_selector_all" /\ log[i].res = "ok") =>
        LET N == Len(pageElems)
            K == Cardinality({i \in 1..N : pageElems[i] # ""})
            v == outcome.val
        IN  /\ Len(v) = K
            /\ Count(log, "inner_html") = N
            /\ \E f \in [1..K -> 1..N] :
                  /\ \A a, b \in 1..K : a < b => f[a] < f[b]
                  /\ \A a \in 1..K : pageElems[f[a]] # "" /\ v[a] = pageElems[f[a]]

\* C12 witness: two elements, the first empty; only the second is returned
C12_Witness ==
    /\ lastOp = "get_properties"
    /\ outcome.kind = "return"
    /\ pageElems = <<"", "b">>
    /\ outcome.val = <<"b">>

\* C13: when connect() raises, the error the caller gets is the failure of
\* the launch step, also when a release step of the teardown raised.
C13_LaunchErrorSurvives ==
    (lastOp = "connect" /\ outcome.kind = "raise") =>
        /\ outcome.err # "CleanupFailure"
        /\ \/ /\ outcome.err = "RuntimeError"
              /\ \E i \in 1..Len(log) :
                    log[i].call = "start" /\ log[i].res = "None"
           \/ \E i \in 1..Len(log) :
                 /\ log[i].res = "raise"
                 /\ log[i].call \notin ReleaseCalls
                 /\ log[i].call = outcome.err

\* C13 witness: a connect() that raised and whose teardown had a release
\* step raise
C13_Witness ==
    /\ lastOp = "connect"
    /\ outcome.kind = "raise"
    /\ \E i \in 1..Len(log) :
          log[i].res = "raise" /\ log[i].call \in ReleaseCalls

\* C14: when get_page_content captures content, it returns that content
\* unmodified, and it records a warning exactly when the content is shorter
\* than 1000 characters or lacks the marker.
C14_ContentUnmodified ==
    (/\ lastOp = "get_page_content"
     /\ \E i \in 1..Len(log) : log[i].call = "content" /\ log[i].res = "ok") =>
        /\ outcome.kind = "return"
        /\ outcome.val = pageContent
        /\ outcome.val # None
        /\ (Count(log, "logger.warning") > 0) <=>
              (pageContent.len < 1000 \/ ~pageContent.marker)

\* C14 witness: content of length 500 returned as captured, with a warning
C14_Witness ==
    /\ lastOp = "get_page_content"
    /\ pageContent.len = 500
    /\ outcome.val = pageContent
    /\ Count(log, "logger.warning") = 1

\* C15: in a scoped session, when the block is left through __aexit__ every
\* handle present has its release attempted, and when entering fails every
\* handle acquired by the failed connect() has its release attempted.
C15_ScopeReleasesAll ==
    [][/\ lastOp' = "aexit" =>
             \A k \in Kinds :
                Session[k] # 0 =>
                   \E i \in 1..Len(log') :
                      log'[i].call = ReleaseCall(k) /\ log'[i].arg = Session[k]
       /\ (lastOp' = "aenter" /\ outcome'.kind = "raise") =>
             \A k \in Kinds : \A i \in 1..Len(log') :
                (log'[i].call = LaunchCall(k) /\ log'[i].res = "ok") =>
                   \E j \in (i + 1)..Len(log') :
                      log'[j].call = ReleaseCall(k) /\ log'[j].arg = log'[i].arg
      ]_vars

\* C16: the release calls of one close() occur in the order page, context,
\* browser, engine; a handle that is absent is skipped, and no release is
\* called before the release of every earlier handle that is present.
C16_ReleaseOrder ==
    [][lastOp' = "close" =>
          /\ \A i, j \in 1..Len(log') :
                i < j => (0 < Rank(log'[i].call) /\ Rank(log'[i].call) < Rank(log'[j].call))
          /\ \A k \in Kinds :
                Session[k] = 0 => Count(log', ReleaseCall(k)) = 0
          /\ \A j \in 1..Len(log') : \A k \in Kinds :
                (Rank(ReleaseCall(k)) < Rank(log'[j].call) /\ Session[k] # 0) =>
                   \E i \in 1..(j - 1) : log'[i].call = ReleaseCall(k)
      ]_vars

\* C16 witness: a close() on a session without a page that released the
\* context, the browser and the engine
C16_Witness ==
    /\ lastOp = "close"
    /\ Len(log) = 3
    /\ log[1].call = "context.close"
    /\ log[2].call = "browser.close"
    /\ log[3].call = "playwright.stop"

\* C17: connect() calls the engine start exactly when the engine handle is
\* absent: never while the handle is present, and once otherwise.
C17_EngineStartedOnce ==
    [][lastOp' = "connect" =>
          Count(log', "start") = (IF playwright = 0 THEN 1 ELSE 0)]_vars

\* C17 witness: a connect() on a connected session that launched a browser
\* without starting the engine
C17_Witness ==
    /\ lastOp = "connect"
    /\ outcome.kind = "return"
    /\ Count(log, "start") = 0
    /\ Count(log, "launch") = 1

\* C18 as stated: every get_page_content call makes exactly one navigation
\* and no retry delay.
C18_ExactlyOneNavigation ==
    lastOp = "get_page_content" =>
        (Count(log, "goto") = 1 /\ Count(log, "retry_sleep") = 0)

\* C18 amended: get_page_content makes exactly one navigation when the page
\* handle is present and none when it is absent, and never a second
\* navigation or a retry delay, whatever max_retries is.
C18_NoRetry ==
    lastOp = "get_page_content" =>
        /\ Count(log, "goto") = (IF page # 0 THEN 1 ELSE 0)
        /\ Count(log, "retry_sleep") = 0
        /\ Count(log, "sleep") <= 1

\* C18 witness: a failed navigation on a session configured to retry
C18_Witness ==
    /\ lastOp = "get_page_content"
    /\ max_retries > 0
    /\ page # 0
    /\ log = <<Call("goto", page, "raise")>>

\* C19: every resource that was launched and not released is referenced by
\* the handle field of its kind.
C19_NoOrphans == \A r \in live : Session[r[1]] = r[2]

\* C20: a fetch leaves the four handle fields, and the resources that are
\* live, as they were, whatever its outcome.
C20_FetchKeepsHandles ==
    [][lastOp' \in {"get_properties", "get_page_content"} =>
          UNCHANGED <<playwright, browser, context, page, live>>]_vars

\* C20 witness: a get_properties that exhausted its retries on a Ready
\* session
C20_Witness ==
    /\ lastOp = "get_properties"
    /\ outcome.kind = "raise"
    /\ outcome.err = "FetchFailure"
    /\ max_retries > 0
    /\ Ready

====
